---- MODULE Spec2Model ----
(***************************************************************************)
(* Model of the security scanner: the MCP server's probes                  *)
(* (src/mcp/main.py) and the backend's aggregator (src/backend/main.py).   *)
(*                                                                         *)
(* Text that the code inspects character by character (urls, header        *)
(* values, bodies) is a sequence of one-character strings.  Header NAMES   *)
(* are atoms, lowered through the table LowerName.  Numbers with one       *)
(* decimal (the vulnerability score) are kept in tenths; the header score  *)
(* is kept in sevenths (it is a multiple of 1/7).                          *)
(***************************************************************************)
EXTENDS Integers, Sequences, FiniteSets, TLC

VARIABLES
    pc,        \* "idle" before the handler runs, "done" after it returned
    request,   \* the request body handed to the handler
    world,     \* what the network answers (target site, sockets, MCP transport, LLM)
    result,    \* the value the handler returned
    log        \* the network calls the handler issued, in order

vars == <<pc, request, world, result, log>>

None == [none |-> TRUE]

(***************************************************************************)
(* Strings                                                                 *)
(***************************************************************************)
S_http  == <<"h","t","t","p",":","/","/">>
S_https == <<"h","t","t","p","s",":","/","/">>

Whitespace == {" ", "\t"}

LowerChar(c) ==
    CASE c = "A" -> "a" [] c = "B" -> "b" [] c = "C" -> "c" [] c = "D" -> "d"
      [] c = "E" -> "e" [] c = "F" -> "f" [] c = "G" -> "g" [] c = "H" -> "h"
      [] c = "I" -> "i" [] c = "L" -> "l" [] c = "N" -> "n" [] c = "O" -> "o"
      [] c = "P" -> "p" [] c = "Q" -> "q" [] c = "R" -> "r" [] c = "S" -> "s"
      [] c = "T" -> "t" [] c = "U" -> "u" [] c = "X" -> "x"
      [] OTHER -> c

UpperChar(c) ==
    CASE c = "a" -> "A" [] c = "b" -> "B" [] c = "c" -> "C" [] c = "d" -> "D"
      [] c = "e" -> "E" [] c = "f" -> "F" [] c = "g" -> "G" [] c = "h" -> "H"
      [] c = "i" -> "I" [] c = "l" -> "L" [] c = "n" -> "N" [] c = "o" -> "O"
      [] c = "p" -> "P" [] c = "q" -> "Q" [] c = "r" -> "R" [] c = "s" -> "S"
      [] c = "t" -> "T" [] c = "u" -> "U" [] c = "x" -> "X"
      [] OTHER -> c

\* str.lower()
Lower(s) == [i \in 1..Len(s) |-> LowerChar(s[i])]

\* str.upper()
Upper(s) == [i \in 1..Len(s) |-> UpperChar(s[i])]

RECURSIVE LStrip(_)
LStrip(s) == IF s # <<>> /\ Head(s) \in Whitespace THEN LStrip(Tail(s)) ELSE s

RECURSIVE RStrip(_)
RStrip(s) ==
    IF s # <<>> /\ s[Len(s)] \in Whitespace THEN RStrip(SubSeq(s, 1, Len(s) - 1)) ELSE s

\* str.strip()
Strip(s) == RStrip(LStrip(s))

\* str.startswith(p)
StartsWith(s, p) == Len(s) >= Len(p) /\ SubSeq(s, 1, Len(p)) = p

\* sub in s
Contains(s, sub) == \E i \in 0..(Len(s) - Len(sub)) : SubSeq(s, i + 1, i + Len(sub)) = sub

\* str.replace(old, ""): leftmost non-overlapping occurrences, one pass
RECURSIVE Remove(_, _)
Remove(s, old) ==
    IF Len(s) < Len(old) THEN s
    ELSE IF StartsWith(s, old) THEN Remove(SubSeq(s, Len(old) + 1, Len(s)), old)
    ELSE <<Head(s)>> \o Remove(Tail(s), old)

\* str.split("/")[0]
RECURSIVE BeforeSlash(_)
BeforeSlash(s) ==
    IF s = <<>> \/ Head(s) = "/" THEN <<>> ELSE <<Head(s)>> \o BeforeSlash(Tail(s))

\* str.rstrip('/')
RECURSIVE RStripSlash(_)
RStripSlash(s) ==
    IF s # <<>> /\ s[Len(s)] = "/" THEN RStripSlash(SubSeq(s, 1, Len(s) - 1)) ELSE s

(***************************************************************************)
(* Target Normalizer                                                       *)
(***************************************************************************)
\* a normalizer that strips the schemes but keeps the path
clean_url_keep_path(url) ==
    Remove(Remove(Lower(Strip(url)), S_http), S_https)

clean_url(url) ==
    LET u1 == Lower(Strip(url))
        u2 == Remove(Remove(u1, S_http), S_https)
    IN  IF Contains(u2, <<"/">>) THEN BeforeSlash(u2) ELSE u2

(***************************************************************************)
(* Raw inputs: concatenations of at most MaxFrags fragments                *)
(***************************************************************************)
MaxFrags == 3

Frags == {
    S_http, S_https,
    <<"H","T","T","P",":","/","/">>,
    <<"h","t">>,
    <<"t","p",":","/","/">>,
    <<"h","t","t","p">>,
    <<":","/","/">>,
    <<"/">>,
    <<"a">>,
    <<"B">>,
    <<".">>,
    <<" ">> }

RECURSIVE Concat(_)
Concat(fs) == IF fs = <<>> THEN <<>> ELSE Head(fs) \o Concat(Tail(fs))

\* the concatenations of at most max fragments
RawStrings(max) == { Concat(fs) : fs \in UNION { [1..n -> Frags] : n \in 0..max } }

(***************************************************************************)
(* Specification of the normalizer alone                                   *)
(***************************************************************************)
InitNorm ==
    /\ pc = "idle"
    /\ request \in { [url |-> u] : u \in RawStrings(MaxFrags) }
    /\ world = None
    /\ result = None
    /\ log = <<>>

Normalize ==
    /\ pc = "idle"
    /\ pc' = "done"
    /\ result' = clean_url(request.url)
    /\ UNCHANGED <<request, world, log>>

NextNorm == Normalize

SpecNorm == InitNorm /\ [][NextNorm]_vars

\* C1: for every raw string the normalizer returns a string (it never
\* fails), and the returned hostname contains neither "://" nor "/".
C1_NormalizerOutputIsBare ==
    pc = "done" =>
        /\ result \in Seq({ request.url[i] : i \in 1..Len(request.url) }
                          \cup { LowerChar(request.url[i]) : i \in 1..Len(request.url) })
        /\ ~Contains(result, <<":","/","/">>)
        /\ ~Contains(result, <<"/">>)

\* a nested scheme was given (stripping one scheme uncovers another) together
\* with a path, and the normalizer has returned
C1_Witness ==
    /\ pc = "done"
    /\ Contains(Remove(Lower(Strip(request.url)), S_http), S_http)
    /\ Contains(request.url, <<"/">>)
    /\ result # <<>>

(***************************************************************************)
(* HTTP responses of the target site                                       *)
(*                                                                         *)
(* A response is [status, headers, text]; headers maps the header names    *)
(* as the server sent them to their values (requests' CaseInsensitiveDict: *)
(* at most one entry per lower-cased name).                                *)
(***************************************************************************)
LowerName ==
    [n \in {"x-frame-options", "X-Frame-Options"}            |-> "x-frame-options"] @@
    [n \in {"x-content-type-options", "X-Content-Type-Options"} |-> "x-content-type-options"] @@
    [n \in {"x-xss-protection", "X-XSS-Protection"}          |-> "x-xss-protection"] @@
    [n \in {"strict-transport-security", "Strict-Transport-Security"} |-> "strict-transport-security"] @@
    [n \in {"content-security-policy", "Content-Security-Policy"} |-> "content-security-policy"] @@
    [n \in {"referrer-policy", "Referrer-Policy"}            |-> "referrer-policy"] @@
    [n \in {"permissions-policy", "Permissions-Policy"}      |-> "permissions-policy"] @@
    [n \in {"server", "Server"}                              |-> "server"] @@
    [n \in {"allow", "Allow"}                                |-> "allow"]

\* the name a server sends in its usual capitalisation
MixedName ==
    [ n \in {"x-frame-options", "x-content-type-options", "x-xss-protection",
             "strict-transport-security", "content-security-policy",
             "referrer-policy", "permissions-policy", "server", "allow"} |->
        CASE n = "x-frame-options" -> "X-Frame-Options"
          [] n = "x-content-type-options" -> "X-Content-Type-Options"
          [] n = "x-xss-protection" -> "X-XSS-Protection"
          [] n = "strict-transport-security" -> "Strict-Transport-Security"
          [] n = "content-security-policy" -> "Content-Security-Policy"
          [] n = "referrer-policy" -> "Referrer-Policy"
          [] n = "permissions-policy" -> "Permissions-Policy"
          [] n = "server" -> "Server"
          [] n = "allow" -> "Allow" ]

\* name in headers  (CaseInsensitiveDict.__contains__)
HasHeader(headers, name) == \E h \in DOMAIN headers : LowerName[h] = name

\* headers[name]  (CaseInsensitiveDict.__getitem__)
HeaderValue(headers, name) == headers[CHOOSE h \in DOMAIN headers : LowerName[h] = name]

Ok(r)   == [kind |-> "ok", resp |-> r]
Fail(k) == [kind |-> k]

(***************************************************************************)
(* Vulnerability Probe                                                     *)
(***************************************************************************)
\* scores of the vulnerability probe are in tenths: 100 is 10.0
security_headers ==
    << "x-frame-options", "x-content-type-options", "x-xss-protection",
       "strict-transport-security", "content-security-policy" >>

server_techs ==
    { <<"a","p","a","c","h","e">>, <<"n","g","i","n","x">>, <<"i","i","s">> }

vulnerable_paths ==
    << <<"/","a","d","m","i","n">>,
       <<"/","w","p","-","a","d","m","i","n">>,
       <<"/",".","e","n","v">>,
       <<"/","c","o","n","f","i","g",".","p","h","p">> >>

dangerous_methods ==
    << <<"T","R","A","C","E">>, <<"D","E","L","E","T","E">>, <<"P","U","T">> >>

S_sql      == <<"s","q","l">>
S_error    == <<"e","r","r","o","r">>
S_index_of == <<"i","n","d","e","x"," ","o","f">>

\* url = request.url, prefixed with https:// unless it starts with a scheme
WithScheme(url) ==
    IF StartsWith(url, S_http) \/ StartsWith(url, S_https) THEN url ELSE S_https \o url

Get(url, t)     == [method |-> "GET", url |-> url, timeout |-> t]
Options(url, t) == [method |-> "OPTIONS", url |-> url, timeout |-> t]

\* the accumulator of the probe: findings so far, score so far, calls so far
Acc(v, s, l) == [vulnerabilities |-> v, score |-> s, log |-> l]

\* the loop over security_headers: a finding and -0.5 per missing header
RECURSIVE MissingHeaders(_, _, _)
MissingHeaders(acc, headers, i) ==
    IF i > Len(security_headers) THEN acc
    ELSE LET header == security_headers[i]
             next ==
                IF header \notin { LowerName[h] : h \in DOMAIN headers }
                THEN Acc(Append(acc.vulnerabilities,
                                [type |-> "Missing Security Header", severity |-> "medium",
                                 header |-> header]),
                         acc.score - 5, acc.log)
                ELSE acc
         IN  MissingHeaders(next, headers, i + 1)

\* the Server header names a known product: a finding and -0.2
InfoDisclosure(acc, headers) ==
    IF HasHeader(headers, "server")
       /\ \E tech \in server_techs : Contains(Lower(HeaderValue(headers, "server")), tech)
    THEN Acc(Append(acc.vulnerabilities,
                    [type |-> "Information Disclosure", severity |-> "low",
                     detail |-> HeaderValue(headers, "server")]),
             acc.score - 2, acc.log)
    ELSE acc

\* the body mentions both sql and error: a finding and -1.0
SqlError(acc, content) ==
    IF Contains(content, S_sql) /\ Contains(content, S_error)
    THEN Acc(Append(acc.vulnerabilities,
                    [type |-> "Potential SQL Error", severity |-> "medium"]),
             acc.score - 10, acc.log)
    ELSE acc

\* one turn of the loop over vulnerable_paths: the GET is issued; status 200
\* is a finding and -1.5; a failed request is swallowed
PathCheck(acc, url, path, w) ==
    LET issued == Append(acc.log, Get(url \o path, 5))
        out    == w.paths[path]
    IN  IF out.kind = "ok" /\ out.resp.status = 200
        THEN Acc(Append(acc.vulnerabilities,
                        [type |-> "Exposed Endpoint", severity |-> "high",
                         path |-> path, status_code |-> out.resp.status]),
                 acc.score - 15, issued)
        ELSE Acc(acc.vulnerabilities, acc.score, issued)

\* a loop whose single try block spans all paths: the first failure ends it
RECURSIVE PathChecks_one_try(_, _, _, _)
PathChecks_one_try(acc, url, i, w) ==
    IF i > Len(vulnerable_paths) THEN acc
    ELSE IF w.paths[vulnerable_paths[i]].kind # "ok"
    THEN Acc(acc.vulnerabilities, acc.score,
             Append(acc.log, Get(url \o vulnerable_paths[i], 5)))
    ELSE PathChecks_one_try(PathCheck(acc, url, vulnerable_paths[i], w), url, i + 1, w)

RECURSIVE PathChecks(_, _, _, _)
PathChecks(acc, url, i, w) ==
    IF i > Len(vulnerable_paths) THEN acc
    ELSE PathChecks(PathCheck(acc, url, vulnerable_paths[i], w), url, i + 1, w)

\* the directory-listing GET: "index of" in the body is a finding and -0.8
DirListing(acc, url, w) ==
    LET issued == Append(acc.log, Get(RStripSlash(url) \o <<"/">>, 5))
        out    == w.dir
    IN  IF out.kind = "ok" /\ Contains(Lower(out.resp.text), S_index_of)
        THEN Acc(Append(acc.vulnerabilities,
                        [type |-> "Directory Listing", severity |-> "medium"]),
                 acc.score - 8, issued)
        ELSE Acc(acc.vulnerabilities, acc.score, issued)

\* the loop over dangerous_methods: a finding and -0.5 per method in Allow
RECURSIVE DangerousMethods(_, _, _)
DangerousMethods(acc, allowed_methods, i) ==
    IF i > Len(dangerous_methods) THEN acc
    ELSE LET method == dangerous_methods[i]
             next ==
                IF Contains(Upper(allowed_methods), method)
                THEN Acc(Append(acc.vulnerabilities,
                                [type |-> "Dangerous HTTP Method", severity |-> "medium",
                                 method |-> method]),
                         acc.score - 5, acc.log)
                ELSE acc
         IN  DangerousMethods(next, allowed_methods, i + 1)

\* the OPTIONS request of depth deep
HttpMethods(acc, url, w) ==
    LET issued == Acc(acc.vulnerabilities, acc.score, Append(acc.log, Options(url, 5)))
        out    == w.options
    IN  IF out.kind = "ok" /\ HasHeader(out.resp.headers, "allow")
        THEN DangerousMethods(issued, HeaderValue(out.resp.headers, "allow"), 1)
        ELSE issued

Max(a, b) == IF a >= b THEN a ELSE b
Min(a, b) == IF a <= b THEN a ELSE b

risk_level(score) ==
    IF score >= 80 THEN "low"
    ELSE IF score >= 60 THEN "medium"
    ELSE IF score >= 40 THEN "high"
    ELSE "critical"

\* the medium checks run at depth medium only
MediumChecks_medium_only(depth) == depth = "medium"

\* the checks of depth medium and deep run for these depths
MediumChecks(depth) == depth \in {"medium", "deep"}
DeepChecks(depth)   == depth = "deep"

\* a score that is not floored
FlooredScore_none(score) == score

\* score = max(0.0, score)
FlooredScore(score) == Max(0, score)

\* POST /scan_vulnerabilities: the payload returned and the calls issued
scan_vulnerabilities(req, w) ==
    LET url  == WithScheme(req.url)
        log0 == <<Get(url, 10)>>
    IN  IF w.get.kind = "RequestException"
        THEN [result |-> [error |-> "Could not connect", vulnerabilities |-> <<>>, score |-> 0],
              log |-> log0]
        ELSE IF w.get.kind # "ok"
        THEN [result |-> [error |-> "Vulnerability scan failed"], log |-> log0]
        ELSE
        LET headers == w.get.resp.headers
            content == Lower(w.get.resp.text)
            a1 == MissingHeaders(Acc(<<>>, 100, log0), headers, 1)
            a2 == InfoDisclosure(a1, headers)
            a3 == SqlError(a2, content)
            a4 == IF MediumChecks(req.scan_depth)
                  THEN DirListing(PathChecks(a3, url, 1, w), url, w)
                  ELSE a3
            a5 == IF DeepChecks(req.scan_depth) THEN HttpMethods(a4, url, w) ELSE a4
            score == FlooredScore(a5.score)
        IN  [result |-> [url |-> url,
                         scan_depth |-> req.scan_depth,
                         vulnerabilities |-> a5.vulnerabilities,
                         vulnerability_count |-> Len(a5.vulnerabilities),
                         security_score |-> score,
                         risk_level |-> risk_level(score)],
             log |-> a5.log]


(***************************************************************************)
(* Specification of the vulnerability probe                                *)
(***************************************************************************)
Range(f) == { f[x] : x \in DOMAIN f }

NoHeaders == [h \in {} |-> <<>>]

V_one == <<"1">>

Response(st, hs, txt) == [status |-> st, headers |-> hs, text |-> txt]

T_ok        == <<"o","k">>
T_sql_error == <<"S","Q","L"," ","E","r","r","o","r">>
T_sql       == <<"s","q","l">>
T_listing   == <<"I","n","d","e","x"," ","o","f"," ","/">>

\* the security headers of the vulnerability probe, as a server sends them
VulnHeaderSets ==
    { [h \in { MixedName[n] : n \in P } |-> V_one] : P \in SUBSET Range(security_headers) }

ServerHeaders ==
    { NoHeaders,
      [h \in {"Server"} |-> <<"n","g","i","n","x","/","1",".","2">>],
      [h \in {"server"} |-> <<"A","p","a","c","h","e">>],
      [h \in {"Server"} |-> <<"g","w","s">>] }

BaselineOutcomes ==
    { Ok(Response(200, hs @@ sv, txt)) :
        hs \in VulnHeaderSets, sv \in ServerHeaders, txt \in {T_ok, T_sql_error, T_sql} }
    \cup { Fail("RequestException"), Fail("Exception") }

BaselineFew ==
    { Ok(Response(200, [h \in { MixedName[n] : n \in Range(security_headers) } |-> V_one], T_ok)),
      Ok(Response(200, [h \in {"Server"} |-> <<"n","g","i","n","x","/","1",".","2">>], T_sql_error)),
      Fail("RequestException"), Fail("Exception") }

PathOutcomes ==
    { Fail("Timeout"), Ok(Response(200, NoHeaders, T_ok)), Ok(Response(404, NoHeaders, T_ok)) }

DirOutcomes ==
    { Fail("Timeout"), Ok(Response(200, NoHeaders, T_listing)), Ok(Response(200, NoHeaders, T_ok)) }

OptionsOutcomes ==
    { Fail("Timeout"),
      Ok(Response(200, NoHeaders, <<>>)),
      Ok(Response(200, [h \in {"Allow"} |-> <<"G","E","T",","," ","P","U","T">>], <<>>)),
      Ok(Response(200, [h \in {"allow"} |-> <<"t","r","a","c","e",",","d","e","l","e","t","e",",","p","u","t">>], <<>>)) }

Site(g, ps, d, o) == [get |-> g, paths |-> ps, dir |-> d, options |-> o]

Depths == {"light", "medium", "deep"}

VulnRequests ==
    { [url |-> <<"a",".","b">>, scan_depth |-> d] : d \in Depths }
    \cup { [url |-> <<"h","t","t","p",":","/","/","a",".","b","/">>, scan_depth |-> "deep"] }

InitVuln ==
    /\ pc = "idle"
    /\ request \in VulnRequests
    \* every baseline with the sensitive paths answering alike, and every
    \* combination of supplementary answers with a few baselines
    /\ \/ \E g \in BaselineOutcomes, po \in PathOutcomes,
             d \in DirOutcomes, o \in OptionsOutcomes :
               world = Site(g, [p \in Range(vulnerable_paths) |-> po], d, o)
       \/ \E g \in BaselineFew, ps \in [Range(vulnerable_paths) -> PathOutcomes],
             d \in DirOutcomes, o \in OptionsOutcomes :
               world = Site(g, ps, d, o)
    /\ result = None
    /\ log = <<>>

ScanVulnerabilities ==
    /\ pc = "idle"
    /\ pc' = "done"
    /\ LET r == scan_vulnerabilities(request, world)
       IN  result' = r.result /\ log' = r.log
    /\ UNCHANGED <<request, world>>

NextVuln == ScanVulnerabilities

SpecVuln == InitVuln /\ [][NextVuln]_vars


(***************************************************************************)
(* Claims about the vulnerability probe                                    *)
(***************************************************************************)
CountType(v, t) == Cardinality({ i \in 1..Len(v) : v[i].type = t })

\* the deductions the findings of a result stand for, in tenths
Deductions(v) ==
      5  * CountType(v, "Missing Security Header")
    + 2  * CountType(v, "Information Disclosure")
    + 10 * CountType(v, "Potential SQL Error")
    + 15 * CountType(v, "Exposed Endpoint")
    + 8  * CountType(v, "Directory Listing")
    + 5  * CountType(v, "Dangerous HTTP Method")

\* what the baseline response shows, read off the response itself
MissingInWorld ==
    { n \in Range(security_headers) :
        \A h \in DOMAIN world.get.resp.headers : LowerName[h] # n }

ServerNamedInWorld ==
    \E h \in DOMAIN world.get.resp.headers :
        /\ LowerName[h] = "server"
        /\ \E tech \in server_techs : Contains(Lower(world.get.resp.headers[h]), tech)

SqlErrorInWorld ==
    /\ Contains(Lower(world.get.resp.text), S_sql)
    /\ Contains(Lower(world.get.resp.text), S_error)

\* what the supplementary requests that were answered show
ExposedInWorld ==
    { p \in Range(vulnerable_paths) :
        world.paths[p].kind = "ok" /\ world.paths[p].resp.status = 200 }

ListingInWorld ==
    world.dir.kind = "ok" /\ Contains(Lower(world.dir.resp.text), S_index_of)

MethodsInWorld ==
    { m \in Range(dangerous_methods) :
        /\ world.options.kind = "ok"
        /\ \E h \in DOMAIN world.options.resp.headers :
              /\ LowerName[h] = "allow"
              /\ Contains(Upper(world.options.resp.headers[h]), m) }

FindingsOfType(v, t) == { v[i] : i \in { j \in 1..Len(v) : v[j].type = t } }

\* C4: on a successful baseline GET the published security_score is
\* max(0, 10.0 - D), D being 0.5 per missing header of the 5-header subset,
\* 0.2 for a Server header naming apache/nginx/iis, 1.0 for a body with both
\* "sql" and "error", 1.5 per exposed path, 0.8 for a directory listing and
\* 0.5 per dangerous method; so it only falls as findings are added and is
\* never below 0.
C4_ScoreIsTenMinusDeductions ==
    (pc = "done" /\ world.get.kind = "ok") =>
        LET v == result.vulnerabilities
        IN  /\ result.security_score = Max(0, 100 - Deductions(v))
            /\ result.security_score >= 0
            /\ result.security_score <= 100
            /\ CountType(v, "Missing Security Header") = Cardinality(MissingInWorld)
            /\ CountType(v, "Information Disclosure") = (IF ServerNamedInWorld THEN 1 ELSE 0)
            /\ CountType(v, "Potential SQL Error") = (IF SqlErrorInWorld THEN 1 ELSE 0)
            /\ result.vulnerability_count = Len(v)

\* the deductions exceed 10.0 and the published score is 0.0
C4_Witness ==
    /\ pc = "done"
    /\ world.get.kind = "ok"
    /\ Deductions(result.vulnerabilities) > 100
    /\ result.security_score = 0

DepthRank == [d \in Depths |-> CASE d = "light" -> 1 [] d = "medium" -> 2 [] d = "deep" -> 3]

AtDepth(d) == scan_vulnerabilities([request EXCEPT !.scan_depth = d], world).result

\* C5: with the same answers from the target, every finding of a shallower
\* depth is also a finding of the depth that was run (light within medium
\* within deep), and the score of the deeper run is not the higher one.
C5_DeeperFindsMore ==
    (pc = "done" /\ world.get.kind = "ok") =>
        \A d \in Depths :
            DepthRank[d] <= DepthRank[request.scan_depth] =>
                /\ Range(AtDepth(d).vulnerabilities) \subseteq Range(result.vulnerabilities)
                /\ AtDepth(d).security_score >= result.security_score

\* a deep run whose findings strictly grow from light to medium to deep
C5_Witness ==
    /\ pc = "done"
    /\ world.get.kind = "ok"
    /\ request.scan_depth = "deep"
    /\ AtDepth("light").vulnerabilities # <<>>
    /\ Len(AtDepth("light").vulnerabilities) < Len(AtDepth("medium").vulnerabilities)
    /\ Len(AtDepth("medium").vulnerabilities) < Len(result.vulnerabilities)
    /\ result.security_score < AtDepth("medium").security_score

\* C6: when the baseline GET fails, whatever the cause and the depth, the
\* probe returns exactly {error, vulnerabilities: [], score: 0.0} and has
\* issued no request but the baseline GET.
C6_BaselineFailureShape ==
    (pc = "done" /\ world.get.kind # "ok") =>
        /\ DOMAIN result = {"error", "vulnerabilities", "score"}
        /\ result.vulnerabilities = <<>>
        /\ result.score = 0
        /\ log = <<Get(WithScheme(request.url), 10)>>

\* the supplementary requests a depth issues, in order
SupplementaryCalls(url, d) ==
    (IF d \in {"medium", "deep"}
     THEN [i \in 1..Len(vulnerable_paths) |-> Get(url \o vulnerable_paths[i], 5)]
          \o <<Get(RStripSlash(url) \o <<"/">>, 5)>>
     ELSE <<>>)
    \o (IF d = "deep" THEN <<Options(url, 5)>> ELSE <<>>)

\* C7: once the baseline GET succeeded, whichever supplementary requests
\* fail, every supplementary request of the depth is issued, the payload
\* has no error field, and the findings are the baseline findings plus
\* those of the supplementary requests that were answered; a failed request
\* adds no finding and no deduction.
C7_SupplementaryFailuresAreSwallowed ==
    (pc = "done" /\ world.get.kind = "ok") =>
        LET v    == result.vulnerabilities
            d    == request.scan_depth
            url  == WithScheme(request.url)
            med  == d \in {"medium", "deep"}
        IN  /\ "error" \notin DOMAIN result
            /\ log = <<Get(url, 10)>> \o SupplementaryCalls(url, d)
            /\ { f.header : f \in FindingsOfType(v, "Missing Security Header") } = MissingInWorld
            /\ { f.path : f \in FindingsOfType(v, "Exposed Endpoint") }
                  = (IF med THEN ExposedInWorld ELSE {})
            /\ CountType(v, "Exposed Endpoint")
                  = (IF med THEN Cardinality(ExposedInWorld) ELSE 0)
            /\ CountType(v, "Directory Listing") = (IF med /\ ListingInWorld THEN 1 ELSE 0)
            /\ { f.method : f \in FindingsOfType(v, "Dangerous HTTP Method") }
                  = (IF d = "deep" THEN MethodsInWorld ELSE {})
            /\ CountType(v, "Dangerous HTTP Method")
                  = (IF d = "deep" THEN Cardinality(MethodsInWorld) ELSE 0)
            /\ Len(v) = CountType(v, "Missing Security Header")
                        + CountType(v, "Information Disclosure")
                        + CountType(v, "Potential SQL Error")
                        + CountType(v, "Exposed Endpoint")
                        + CountType(v, "Directory Listing")
                        + CountType(v, "Dangerous HTTP Method")
            /\ result.security_score
                  = Max(0, 100 - 5 * Cardinality(MissingInWorld)
                               - (IF ServerNamedInWorld THEN 2 ELSE 0)
                               - (IF SqlErrorInWorld THEN 10 ELSE 0)
                               - (IF med THEN 15 * Cardinality(ExposedInWorld) ELSE 0)
                               - (IF med /\ ListingInWorld THEN 8 ELSE 0)
                               - (IF d = "deep" THEN 5 * Cardinality(MethodsInWorld) ELSE 0))

\* a deep run in which the first sensitive path and the directory request
\* fail while a later path and the OPTIONS request yield findings
C7_Witness ==
    /\ pc = "done"
    /\ world.get.kind = "ok"
    /\ request.scan_depth = "deep"
    /\ world.paths[vulnerable_paths[1]].kind # "ok"
    /\ world.dir.kind # "ok"
    /\ vulnerable_paths[4] \in ExposedInWorld
    /\ MethodsInWorld # {}
    /\ CountType(result.vulnerabilities, "Exposed Endpoint") >= 1
    /\ CountType(result.vulnerabilities, "Dangerous HTTP Method") >= 1


(***************************************************************************)
(* HTTP Header Probe                                                       *)
(*                                                                         *)
(* The unrounded score is a multiple of 1/7 and is kept in sevenths        *)
(* (70 is 10.0); the published security_score is in tenths.                *)
(***************************************************************************)
security_headers_check ==
    << [header |-> "strict-transport-security", importance |-> "high"],
       [header |-> "content-security-policy",   importance |-> "high"],
       [header |-> "x-frame-options",           importance |-> "medium"],
       [header |-> "x-content-type-options",    importance |-> "medium"],
       [header |-> "x-xss-protection",          importance |-> "low"],
       [header |-> "referrer-policy",           importance |-> "medium"],
       [header |-> "permissions-policy",        importance |-> "medium"] >>

\* Python's None where a header value is expected: a sequence that is no text
NoValue == <<"None">>

\* the value found by the case-insensitive search, None when no name matches
header_value(headers, header_name) ==
    IF \E h \in DOMAIN headers : LowerName[h] = header_name
    THEN headers[CHOOSE h \in DOMAIN headers : LowerName[h] = header_name]
    ELSE NoValue

\* a presence test by name alone
IsPresent_by_name(value) == value # NoValue

\* if header_value:  -- None and the empty string are both false
IsPresent(value) == value # NoValue /\ value # <<>>

\* the catalog entries that go to present_headers, in catalog order
present_entries(headers) ==
    SelectSeq(security_headers_check,
              LAMBDA e : IsPresent(header_value(headers, e.header)))

\* the catalog entries that go to missing_headers, in catalog order
missing_entries(headers) ==
    SelectSeq(security_headers_check,
              LAMBDA e : ~IsPresent(header_value(headers, e.header)))

\* score = (present_count / total_headers) * 10, then +1 / -2, then the
\* clamp to [0, 10]; in sevenths
header_score(present) ==
    LET total_headers   == Len(security_headers_check)
        present_count   == Len(present)
        base            == present_count * 10
        high_importance == SelectSeq(security_headers_check, LAMBDA e : e.importance = "high")
        high_present    == SelectSeq(present, LAMBDA e : e \in Range(high_importance))
        adjusted ==
            IF Len(high_present) = Len(high_importance) THEN base + 1 * total_headers
            ELSE IF Len(high_present) = 0 THEN base - 2 * total_headers
            ELSE base
    IN  Max(0, Min(10 * total_headers, adjusted))

\* cutoffs that exclude the boundary scores
grade_strict(score) ==
    IF score > 9 * 7 THEN "A"
    ELSE IF score > 7 * 7 THEN "B"
    ELSE IF score > 5 * 7 THEN "C"
    ELSE IF score > 3 * 7 THEN "D"
    ELSE "F"

\* the grade of a score in sevenths
grade(score) ==
    IF score >= 9 * 7 THEN "A"
    ELSE IF score >= 7 * 7 THEN "B"
    ELSE IF score >= 5 * 7 THEN "C"
    ELSE IF score >= 3 * 7 THEN "D"
    ELSE "F"

\* round(score, 1): sevenths to the nearest tenth (no multiple of 1/7 lies
\* half-way between two tenths)
round1(score) == (20 * score + 7) \div 14

\* POST /analyze_security_headers: the payload returned and the calls issued
analyze_security_headers(req, w) ==
    LET url  == WithScheme(req.url)
        log0 == <<Get(url, 10)>>
    IN  IF w.get.kind = "RequestException"
        THEN [result |-> [error |-> "Could not analyze headers"], log |-> log0]
        ELSE IF w.get.kind # "ok"
        THEN [result |-> [error |-> "Header analysis failed"], log |-> log0]
        ELSE
        LET headers == w.get.resp.headers
            present == present_entries(headers)
            missing == missing_entries(headers)
            score   == header_score(present)
        IN  [result |->
                [url |-> url,
                 security_score |-> round1(score),
                 grade |-> grade(score),
                 present_headers |->
                    [n \in { e.header : e \in Range(present) } |->
                        [value |-> header_value(headers, n),
                         importance |-> (CHOOSE e \in Range(present) : e.header = n).importance]],
                 missing_headers |-> missing,
                 total_headers_checked |-> Len(security_headers_check),
                 headers_present |-> Len(present),
                 recommendations |->
                    SelectSeq(missing, LAMBDA e : e.importance = "high")],
             log |-> log0]

(***************************************************************************)
(* Specification of the header probe                                       *)
(***************************************************************************)
Catalog == { e.header : e \in Range(security_headers_check) }

\* how a server may send a catalog header
Sendings == {"absent", "lower", "mixed", "empty"}

SentHeaders(f) ==
    [h \in { IF f[n] = "lower" THEN n ELSE MixedName[n] : n \in { m \in Catalog : f[m] # "absent" } }
        |-> IF f[LowerName[h]] = "empty" THEN <<>> ELSE V_one]

InitHdr ==
    /\ pc = "idle"
    /\ request \in { [url |-> <<"a",".","b">>] }
    /\ \/ \E f \in [Catalog -> Sendings] :
               world = [get |-> Ok(Response(200, SentHeaders(f), T_ok))]
       \/ world \in { [get |-> Fail("RequestException")], [get |-> Fail("Exception")] }
    /\ result = None
    /\ log = <<>>

AnalyzeSecurityHeaders ==
    /\ pc = "idle"
    /\ pc' = "done"
    /\ LET r == analyze_security_headers(request, world)
       IN  result' = r.result /\ log' = r.log
    /\ UNCHANGED <<request, world>>

NextHdr == AnalyzeSecurityHeaders

SpecHdr == InitHdr /\ [][NextHdr]_vars

\* the catalog headers whose name occurs in the response, whatever the value
NamesInResponse ==
    { n \in Catalog : \E h \in DOMAIN world.get.resp.headers : LowerName[h] = n }

HighNames == {"strict-transport-security", "content-security-policy"}

\* clamp((|S|/7)*10 + adj, 0, 10) in sevenths
ClaimedHeaderScore(S) ==
    LET adj == IF HighNames \subseteq S THEN 1
               ELSE IF HighNames \cap S = {} THEN -2
               ELSE 0
    IN  Max(0, Min(70, 10 * Cardinality(S) + 7 * adj))

\* C3: with S the catalog headers whose name occurs in the response
\* (compared case-insensitively, whatever the value), the score is
\* clamp((|S|/7)*10 + adj, 0, 10), adj = +1 when both high-importance
\* headers are in S, -2 when neither is, 0 otherwise (the published score
\* being that number to one decimal).
C3_HeaderScoreByName ==
    (pc = "done" /\ world.get.kind = "ok") =>
        result.security_score = round1(ClaimedHeaderScore(NamesInResponse))


(***************************************************************************)
(* TLS Probe                                                               *)
(***************************************************************************)
Connect(host, port, t) == [method |-> "CONNECT", host |-> host, port |-> port, timeout |-> t]

\* a handler that reports the failure inside a half-built certificate report
check_ssl_certificate_partial(req, w) ==
    LET domain == clean_url(req.url)
        log0   == <<Connect(domain, 443, 10)>>
    IN  IF w.tls.kind = "ok"
        THEN [result |-> [valid |-> TRUE,
                          domain |-> domain,
                          subject |-> w.tls.resp.subject,
                          issuer |-> w.tls.resp.issuer,
                          days_until_expiry |-> w.tls.resp.days_until_expiry,
                          subject_alt_names |-> <<>>,
                          issues |-> <<>>,
                          chain_valid |-> req.check_chain],
              log |-> log0]
        ELSE [result |-> [valid |-> FALSE, error |-> "Unexpected error",
                          domain |-> req.url, issues |-> <<>>],
              log |-> log0]

\* POST /check_ssl: the payload returned and the calls issued.  The
\* certificate of the world carries what the handler derives from it: the
\* attribute names of its subject and the whole days until it expires.
check_ssl_certificate(req, w) ==
    LET domain == clean_url(req.url)
        log0   == <<Connect(domain, 443, 10)>>
        failed(msg) == [result |-> [valid |-> FALSE, error |-> msg, domain |-> req.url],
                        log |-> log0]
    IN  CASE w.tls.kind = "timeout"  -> failed("Connection timeout")
          [] w.tls.kind = "gaierror" -> failed("Domain not found")
          [] w.tls.kind = "SSLError" -> failed("SSL error")
          [] w.tls.kind = "ok" ->
                LET cert == w.tls.resp
                    i1 == IF cert.days_until_expiry < 30
                          THEN <<"Certificate expires in N days">> ELSE <<>>
                    i2 == IF "CN" \notin cert.subject
                          THEN <<"No Common Name in certificate">> ELSE <<>>
                IN  [result |-> [valid |-> TRUE,
                                 domain |-> domain,
                                 subject |-> cert.subject,
                                 issuer |-> cert.issuer,
                                 days_until_expiry |-> cert.days_until_expiry,
                                 subject_alt_names |-> <<>>,
                                 issues |-> i1 \o i2,
                                 chain_valid |-> req.check_chain],
                     log |-> log0]
          [] OTHER -> failed("Unexpected error")

(***************************************************************************)
(* Port Probe                                                              *)
(***************************************************************************)
default_ports == <<21, 22, 23, 25, 53, 80, 110, 143, 443, 993, 995, 8080, 8443>>

\* request.ports or [21, 22, ...]: null and the empty list (both written
\* <<>> in a request) give the default list
ports_to_scan(req) == IF req.ports = <<>> THEN default_ports ELSE req.ports

\* how the i-th socket.create_connection((domain, port), timeout=3) ends:
\* a host name with an empty label cannot be encoded for the resolver
\* (UnicodeError, not an OSError); otherwise the network decides
ConnectOutcome(domain, i, w) ==
    IF Contains(domain, <<".", ".">>) THEN "UnicodeError" ELSE w.conn[i]

\* except (socket.timeout, socket.error)
CaughtPerPort == {"timeout", "refused", "gaierror"}

\* the loop over ports_to_scan from attempt i on
RECURSIVE PortLoop(_, _, _, _, _)
PortLoop(st, domain, ports, i, w) ==
    IF i > Len(ports) THEN st
    ELSE LET out    == ConnectOutcome(domain, i, w)
             issued == Append(st.log, Connect(domain, ports[i], 3))
         IN  IF out = "open"
             THEN PortLoop([st EXCEPT !.open_ports = Append(@, ports[i]), !.log = issued],
                           domain, ports, i + 1, w)
             ELSE IF out \in CaughtPerPort
             THEN PortLoop([st EXCEPT !.closed_ports = Append(@, ports[i]), !.log = issued],
                           domain, ports, i + 1, w)
             ELSE [st EXCEPT !.raised = TRUE, !.log = issued]

Has(seq, x) == \E i \in 1..Len(seq) : seq[i] = x

\* concerns that flag plain HTTP without looking for port 443
security_concerns_http_only(open_ports) ==
    (IF Has(open_ports, 21) THEN <<"FTP port 21 is open - consider using SFTP instead">> ELSE <<>>)
    \o (IF Has(open_ports, 23) THEN <<"Telnet port 23 is open - unencrypted protocol">> ELSE <<>>)
    \o (IF Has(open_ports, 80)
        THEN <<"Only HTTP (port 80) available - no HTTPS">> ELSE <<>>)

security_concerns(open_ports) ==
    (IF Has(open_ports, 21) THEN <<"FTP port 21 is open - consider using SFTP instead">> ELSE <<>>)
    \o (IF Has(open_ports, 23) THEN <<"Telnet port 23 is open - unencrypted protocol">> ELSE <<>>)
    \o (IF Has(open_ports, 80) /\ ~Has(open_ports, 443)
        THEN <<"Only HTTP (port 80) available - no HTTPS">> ELSE <<>>)

\* POST /scan_ports: the payload returned and the calls issued
scan_ports(req, w) ==
    LET domain == clean_url(req.url)
        ports  == ports_to_scan(req)
        st     == PortLoop([open_ports |-> <<>>, closed_ports |-> <<>>, log |-> <<>>,
                            raised |-> FALSE], domain, ports, 1, w)
    IN  IF st.raised
        THEN [result |-> [error |-> "Port scan failed"], log |-> st.log]
        ELSE [result |-> [domain |-> domain,
                          open_ports |-> st.open_ports,
                          closed_ports |-> st.closed_ports,
                          total_scanned |-> Len(ports),
                          security_concerns |-> security_concerns(st.open_ports)],
              log |-> st.log]

(***************************************************************************)
(* DNS Probe                                                               *)
(***************************************************************************)
record_types == <<"A", "AAAA", "MX", "TXT", "NS", "CNAME">>

\* an SPF prefix without the quote of the record's text form
S_spf1_unquoted == <<"v","=","s","p","f","1">>
S_spf1   == <<"\"","v","=","s","p","f","1">>
S_dmarc1 == <<"\"","v","=","D","M","A","R","C","1">>

S_error_resolving == <<"E","r","r","o","r"," ","r","e","s","o","l","v","i","n","g">>

Resolve(name, rt) == [method |-> "RESOLVE", host |-> name, rtype |-> rt]

\* dns_info[record_type] for one lookup
dns_records(out) ==
    CASE out.kind = "ok"       -> out.resp
      [] out.kind = "NoAnswer" -> <<>>
      [] OTHER                 -> <<S_error_resolving>>

\* POST /analyze_dns: the payload returned and the calls issued
analyze_dns(req, w) ==
    LET d1       == Remove(Remove(Lower(Strip(req.domain)), S_http), S_https)
        domain   == IF Contains(d1, <<"/">>) THEN BeforeSlash(d1) ELSE d1
        dns_info == [rt \in Range(record_types) |-> dns_records(w.dns[rt])]
        spf_found   == \E i \in 1..Len(dns_info["TXT"]) : StartsWith(dns_info["TXT"][i], S_spf1)
        dmarc_found == \E i \in 1..Len(dns_info["TXT"]) : StartsWith(dns_info["TXT"][i], S_dmarc1)
        issues ==
            (IF ~spf_found
             THEN <<"No SPF record found - email spoofing protection missing">> ELSE <<>>)
            \o (IF ~dmarc_found
                THEN <<"No DMARC record found - email authentication policy missing">> ELSE <<>>)
            \o (IF Len(dns_info["A"]) > 5
                THEN <<"Many A records found - potential load balancing or CDN setup">> ELSE <<>>)
    IN  [result |-> [domain |-> domain,
                     dns_records |-> dns_info,
                     security_issues |-> issues,
                     spf_configured |-> spf_found,
                     dmarc_configured |-> dmarc_found],
         log |-> [i \in 1..Len(record_types) |-> Resolve(domain, record_types[i])]]


(***************************************************************************)
(* Specification of the port probe                                         *)
(***************************************************************************)
MaxPorts == 3

PortValues == {21, 23, 80, 443}

\* caller-supplied lists with every course of the connects, and the default
\* list with every open/closed pattern of the ports the findings look at
PortCases(max) ==
    UNION { { [ports |-> ps, conn |-> c] :
                ps \in [1..n -> PortValues], c \in [1..n -> {"open", "timeout", "refused"}] } :
            n \in 1..max }
    \cup
    { [ports |-> <<>>,
       conn  |-> [i \in 1..Len(default_ports) |->
                    IF default_ports[i] \in open THEN "open" ELSE k]] :
        open \in SUBSET PortValues, k \in CaughtPerPort }

PortUrls ==
    { <<"a",".","b">>,
      <<"H","T","T","P",":","/","/","A",".","b","/","x">>,
      <<"a",".",".","b">> }

InitPorts ==
    /\ pc = "idle"
    /\ \E c \in PortCases(MaxPorts) :
         /\ request \in { [url |-> u, ports |-> c.ports] : u \in PortUrls }
         /\ world = [conn |-> c.conn]
    /\ result = None
    /\ log = <<>>

ScanPorts ==
    /\ pc = "idle"
    /\ pc' = "done"
    /\ LET r == scan_ports(request, world)
       IN  result' = r.result /\ log' = r.log
    /\ UNCHANGED <<request, world>>

NextPorts == ScanPorts

SpecPorts == InitPorts /\ [][NextPorts]_vars

Count(seq, x) == Cardinality({ i \in 1..Len(seq) : seq[i] = x })

\* C10: for every target and every port list, scan_ports returns a
\* success payload, never an error payload; every scanned port is in
\* exactly one of open_ports / closed_ports, a connect that failed for
\* whatever reason counting as closed, and the two lists together have
\* total_scanned entries.
C10_PortProbeNeverFails ==
    pc = "done" =>
        LET ports == ports_to_scan(request)
        IN  /\ "error" \notin DOMAIN result
            /\ result.total_scanned = Len(ports)
            /\ Len(result.open_ports) + Len(result.closed_ports) = result.total_scanned
            /\ \A p \in Range(ports) :
                  Count(result.open_ports, p) + Count(result.closed_ports, p) = Count(ports, p)
            /\ \A i \in 1..Len(ports) :
                  ConnectOutcome(clean_url(request.url), i, world) # "open"
                      => Has(result.closed_ports, ports[i])

(***************************************************************************)
(* Report Aggregator (backend)                                             *)
(***************************************************************************)
Post(endpoint, body, t) == [method |-> "POST", url |-> endpoint, json |-> body, timeout |-> t]

\* what stands for an exception that leaves a function
Raised == [raised |-> TRUE]

\* a tool without its try/except: a failed POST leaves the tool as an exception
tool_result_unguarded(transport, payload, msg) ==
    IF transport = "ok" THEN payload ELSE Raised

\* the try/except of a tool: the JSON body of a 2xx answer, or an error
\* payload when the POST timed out, could not connect or answered with an
\* HTTP error status
tool_result(transport, payload, msg) ==
    IF transport = "ok" THEN payload ELSE [error |-> msg]

\* the calls behind one tool call: the POST, and the calls of the MCP
\* handler when the request reached it
tool_log(post, transport, handler_log) ==
    <<post>> \o (IF transport \in {"ok", "timeout"} THEN handler_log ELSE <<>>)

tool_check_ssl_certificate(url, check_chain, w) ==
    LET body == [url |-> url, check_chain |-> check_chain]
        r    == check_ssl_certificate(body, w)
    IN  [result |-> tool_result(w.mcp["/check_ssl"], r.result, "SSL check failed"),
         log |-> tool_log(Post("/check_ssl", body, 30), w.mcp["/check_ssl"], r.log)]

tool_scan_vulnerabilities(url, scan_depth, w) ==
    LET body == [url |-> url, scan_depth |-> scan_depth]
        r    == scan_vulnerabilities(body, w)
    IN  [result |-> tool_result(w.mcp["/scan_vulnerabilities"], r.result,
                                "Vulnerability scan failed"),
         log |-> tool_log(Post("/scan_vulnerabilities", body, 60),
                          w.mcp["/scan_vulnerabilities"], r.log)]

tool_analyze_security_headers(url, w) ==
    LET body == [url |-> url]
        r    == analyze_security_headers(body, [w EXCEPT !.get = w.hdr_get])
    IN  [result |-> tool_result(w.mcp["/analyze_security_headers"], r.result,
                                "Security headers analysis failed"),
         log |-> tool_log(Post("/analyze_security_headers", body, 30),
                          w.mcp["/analyze_security_headers"], r.log)]

LlmInvoke == [method |-> "LLM"]

ScanFailed == [status |-> 500, detail |-> "Scan failed"]

\* POST /scan: the HTTP response and the calls issued.  An exception in the
\* body of the handler ends it with status 500.
scan_website(req, w) ==
    LET url == Remove(Remove(Lower(Strip(req.url)), S_http), S_https)
        t1  == tool_check_ssl_certificate(url, TRUE, w)
        t2  == tool_scan_vulnerabilities(url, "light", w)
        t3  == tool_analyze_security_headers(url, w)
    IN  IF t1.result = Raised THEN [result |-> ScanFailed, log |-> t1.log]
        ELSE IF t2.result = Raised THEN [result |-> ScanFailed, log |-> t1.log \o t2.log]
        ELSE IF t3.result = Raised
        THEN [result |-> ScanFailed, log |-> t1.log \o t2.log \o t3.log]
        ELSE
        LET aggregated_results == [ssl |-> t1.result,
                                   vulnerabilities |-> t2.result,
                                   security_headers |-> t3.result]
            calls == t1.log \o t2.log \o t3.log \o <<LlmInvoke>>
        IN  IF w.llm = "ok"
            THEN [result |-> [status |-> 200, results |-> aggregated_results,
                              summary |-> "summary"],
                  log |-> calls]
            ELSE [result |-> ScanFailed, log |-> calls]


(***************************************************************************)
(* Worlds of a whole scan                                                  *)
(***************************************************************************)
Endpoints == {"/check_ssl", "/scan_vulnerabilities", "/analyze_security_headers"}

\* how a POST to the MCP server ends
Transports == {"ok", "timeout", "connection_error", "http_error"}

GoodCert == [subject |-> {"CN"}, issuer |-> {"CN", "O"}, days_until_expiry |-> 90]

GoodResponse ==
    Response(200, [h \in { MixedName[n] : n \in Catalog } |-> V_one], T_ok)

\* a site where every call is answered and nothing is found
GoodWorld ==
    [ tls     |-> Ok(GoodCert),
      get     |-> Ok(GoodResponse),
      hdr_get |-> Ok(GoodResponse),
      paths   |-> [p \in Range(vulnerable_paths) |-> Ok(Response(404, NoHeaders, T_ok))],
      dir     |-> Ok(Response(200, NoHeaders, T_ok)),
      options |-> Ok(Response(200, NoHeaders, <<>>)),
      conn    |-> [i \in 1..Len(default_ports) |->
                      IF default_ports[i] \in {80, 443} THEN "open" ELSE "refused"],
      dns     |-> [rt \in Range(record_types) |-> Fail("NoAnswer")],
      mcp     |-> [e \in Endpoints |-> "ok"],
      llm     |-> "ok" ]

ScanUrls ==
    { <<"a",".","b">>, <<" ","H","T","T","P","S",":","/","/","A",".","b","/","x">> }

InitScan ==
    /\ pc = "idle"
    /\ request \in { [url |-> u] : u \in ScanUrls }
    /\ \E t \in {Ok(GoodCert), Fail("timeout"), Fail("SSLError")},
          g \in {Ok(GoodResponse), Fail("RequestException"), Fail("Exception")},
          h \in {Ok(GoodResponse), Fail("RequestException")},
          m \in [Endpoints -> Transports],
          l \in {"ok", "fail"} :
            world = [GoodWorld EXCEPT !.tls = t, !.get = g, !.hdr_get = h,
                                      !.mcp = m, !.llm = l]
    /\ result = None
    /\ log = <<>>

ScanWebsite ==
    /\ pc = "idle"
    /\ pc' = "done"
    /\ LET r == scan_website(request, world)
       IN  result' = r.result /\ log' = r.log
    /\ UNCHANGED <<request, world>>

NextScan == ScanWebsite

SpecScan == InitScan /\ [][NextScan]_vars

\* the endpoints posted to, in order
Invoked == SelectSeq(log, LAMBDA e : e.method = "POST")

\* the probe behind an endpoint failed: on the way to the MCP server, or in
\* the MCP handler (its only network call failed)
ProbeFailed(e) ==
    \/ world.mcp[e] # "ok"
    \/ e = "/check_ssl" /\ world.tls.kind # "ok"
    \/ e = "/scan_vulnerabilities" /\ world.get.kind # "ok"
    \/ e = "/analyze_security_headers" /\ world.hdr_get.kind # "ok"

KindOf == [e \in Endpoints |->
              CASE e = "/check_ssl" -> "ssl"
                [] e = "/scan_vulnerabilities" -> "vulnerabilities"
                [] e = "/analyze_security_headers" -> "security_headers"]

\* a payload that reports a failure / a payload of a completed probe
IsErrorPayload(p)   == "error" \in DOMAIN p
IsSuccessPayload(p) ==
    /\ "error" \notin DOMAIN p
    /\ \/ "valid" \in DOMAIN p /\ p.valid
       \/ "risk_level" \in DOMAIN p
       \/ "grade" \in DOMAIN p

\* C8: whichever probes fail (timeout, connection error, HTTP error
\* status, or a failure inside the probe), every probe is still invoked,
\* the scan is not failed by them (only a failure of the summary call
\* fails it), and the Report has one entry per invoked probe: the error
\* payload of a probe that failed, the success payload of one that did not;
\* with every probe failed the Report consists of error payloads.
C8_ProbeFailuresAreIsolated ==
    pc = "done" =>
        /\ { Invoked[i].url : i \in 1..Len(Invoked) } = Endpoints
        /\ Len(Invoked) = Cardinality(Endpoints)
        /\ (result.status = 200) <=> (world.llm = "ok")
        /\ result.status = 200 =>
              /\ DOMAIN result.results = { KindOf[e] : e \in Endpoints }
              /\ \A e \in Endpoints :
                    /\ ProbeFailed(e) => IsErrorPayload(result.results[KindOf[e]])
                    /\ ~ProbeFailed(e) => IsSuccessPayload(result.results[KindOf[e]])

\* every probe failed, in different ways, and the scan returned its Report
C8_Witness ==
    /\ pc = "done"
    /\ world.mcp["/check_ssl"] = "timeout"
    /\ world.mcp["/scan_vulnerabilities"] = "ok" /\ world.get.kind # "ok"
    /\ world.mcp["/analyze_security_headers"] = "http_error"
    /\ result.status = 200
    /\ \A k \in DOMAIN result.results : IsErrorPayload(result.results[k])

\* C9: one scan invokes all five probes (TLS, HTTP headers,
\* vulnerabilities, ports, DNS) and the Report holds exactly one result for
\* each of the five kinds.
C9_ReportCoversFiveProbes ==
    (pc = "done" /\ result.status = 200) =>
        /\ { Invoked[i].url : i \in 1..Len(Invoked) }
              = Endpoints \cup {"/scan_ports", "/analyze_dns"}
        /\ Cardinality(DOMAIN result.results) = 5

(***************************************************************************)
(* Specification of the path of a raw target to the network: each probe    *)
(* called directly, and the backend's scan                                 *)
(***************************************************************************)
InitTarget ==
    /\ pc = "idle"
    /\ request \in { [url |-> u, domain |-> u, scan_depth |-> "deep",
                      check_chain |-> TRUE, ports |-> <<>>] : u \in RawStrings(MaxFrags) }
    /\ world = GoodWorld
    /\ result = None
    /\ log = <<>>

CheckSslCertificate ==
    /\ pc = "idle"
    /\ pc' = "done"
    /\ LET r == check_ssl_certificate(request, world)
       IN  result' = r.result /\ log' = r.log
    /\ UNCHANGED <<request, world>>

AnalyzeDns ==
    /\ pc = "idle"
    /\ pc' = "done"
    /\ LET r == analyze_dns(request, world)
       IN  result' = r.result /\ log' = r.log
    /\ UNCHANGED <<request, world>>

NextTarget ==
    \/ CheckSslCertificate
    \/ ScanVulnerabilities
    \/ AnalyzeSecurityHeaders
    \/ ScanPorts
    \/ AnalyzeDns
    \/ ScanWebsite

SpecTarget == InitTarget /\ [][NextTarget]_vars

\* a bare hostname: lower-case, no path, no scheme
IsBareHost(h) ==
    /\ Lower(h) = h
    /\ ~Contains(h, <<"/">>)
    /\ ~Contains(h, <<":","/","/">>)

\* C2: whatever raw url or domain a probe is given, directly or through
\* the backend's scan, the host it connects to or resolves is the bare
\* lower-case hostname, and the URL of its GET is exactly https://<host>.
C2_ProbesSeeNormalizedTarget ==
    pc = "done" =>
        \A i \in 1..Len(log) :
            LET e == log[i]
            IN  /\ e.method \in {"CONNECT", "RESOLVE"} => IsBareHost(e.host)
                /\ (e.method = "GET" /\ e.timeout = 10) =>
                      /\ StartsWith(e.url, S_https)
                      /\ IsBareHost(SubSeq(e.url, Len(S_https) + 1, Len(e.url)))

(***************************************************************************)
(* The Port probe's qualitative findings                                   *)
(***************************************************************************)
\* some connect to port p succeeded during the scan
OpenInWorld(p) ==
    LET ports == ports_to_scan(request)
    IN  \E i \in 1..Len(ports) : ports[i] = p /\ world.conn[i] = "open"

\* some connect to port p was made and none succeeded
ClosedInWorld(p) ==
    LET ports == ports_to_scan(request)
    IN  /\ \E i \in 1..Len(ports) : ports[i] = p
        /\ ~OpenInWorld(p)

\* C13: for every open/closed outcome over the scanned ports,
\* security_concerns holds the FTP finding iff port 21 is open, the Telnet
\* finding iff port 23 is open, the "no HTTPS" finding iff port 80 is open
\* and port 443 is not, and nothing else; with 21 and 23 closed and 80 and
\* 443 open the list is empty.
C13_ConcernsFollowOpenPorts ==
    (pc = "done" /\ "error" \notin DOMAIN result) =>
        /\ Range(result.security_concerns) =
              (IF OpenInWorld(21)
               THEN {"FTP port 21 is open - consider using SFTP instead"} ELSE {})
              \cup (IF OpenInWorld(23)
                    THEN {"Telnet port 23 is open - unencrypted protocol"} ELSE {})
              \cup (IF OpenInWorld(80) /\ ~OpenInWorld(443)
                    THEN {"Only HTTP (port 80) available - no HTTPS"} ELSE {})
        /\ (ClosedInWorld(21) /\ ClosedInWorld(23) /\ OpenInWorld(80) /\ OpenInWorld(443))
              => result.security_concerns = <<>>
        /\ (OpenInWorld(80) /\ ClosedInWorld(443))
              => Has(result.security_concerns, "Only HTTP (port 80) available - no HTTPS")

\* a scan that found port 80 open and port 443 closed has reported plain HTTP
C13_Witness ==
    /\ pc = "done"
    /\ "error" \notin DOMAIN result
    /\ OpenInWorld(80)
    /\ ClosedInWorld(443)
    /\ ClosedInWorld(21)
    /\ Has(result.security_concerns, "Only HTTP (port 80) available - no HTTPS")

(***************************************************************************)
(* The TLS and Header probes when their first network call fails           *)
(***************************************************************************)
\* outcomes of connect-and-handshake: the three exceptions the handler names,
\* any other exception raised inside its try block, or a certificate
CertDays == {0, 29, 30, 90}

CertSubjects == { {"CN", "O"}, {"O"}, {} }

TlsOutcomes ==
    { Fail("timeout"), Fail("gaierror"), Fail("SSLError"), Fail("Exception") }
    \cup { Ok([subject |-> s, issuer |-> {"CN", "O"}, days_until_expiry |-> d]) :
              s \in CertSubjects, d \in CertDays }

FailUrls == { <<"a",".","b">>, <<" ","H","T","T","P",":","/","/","A",".","b","/","x">> }

InitFail ==
    /\ pc = "idle"
    /\ \E u \in FailUrls, c \in BOOLEAN :
           request = [url |-> u, check_chain |-> c]
    /\ \E t \in TlsOutcomes :
           \/ \E f \in [Catalog -> {"absent", "mixed"}] :
                  world = [tls |-> t, get |-> Ok(Response(200, SentHeaders(f), T_ok))]
           \/ \E k \in {"RequestException", "Exception"} :
                  world = [tls |-> t, get |-> Fail(k)]
    /\ result = None
    /\ log = <<>>

NextFail ==
    \/ CheckSslCertificate
    \/ AnalyzeSecurityHeaders

SpecFail == InitFail /\ [][NextFail]_vars

TlsSuccessFields ==
    {"subject", "issuer", "not_before", "not_after", "days_until_expiry",
     "subject_alt_names", "issues", "chain_valid"}

HdrSuccessFields ==
    {"security_score", "grade", "present_headers", "missing_headers",
     "total_headers_checked", "headers_present", "recommendations"}

TlsErrorText ==
    [timeout |-> "Connection timeout", gaierror |-> "Domain not found",
     SSLError |-> "SSL error", Exception |-> "Unexpected error"]

\* C11: when the TLS probe's connect or handshake fails (timeout, name not
\* found, TLS error, any other exception) the probe returns a payload with
\* valid = false, the error text of that failure, and no certificate field or
\* issues list; when the Header probe's GET fails its payload carries an
\* error and nothing else; and in every payload either probe returns, the
\* error field is present exactly when the success fields are absent.
C11_FirstCallFailureShape ==
    (pc = "done" /\ Len(log) > 0) =>
        IF log[1].method = "CONNECT"
        THEN /\ world.tls.kind # "ok" =>
                    /\ result.valid = FALSE
                    /\ "error" \in DOMAIN result
                    /\ result.error = TlsErrorText[world.tls.kind]
                    /\ DOMAIN result \cap TlsSuccessFields = {}
             /\ ("error" \in DOMAIN result) <=> (DOMAIN result \cap TlsSuccessFields = {})
             /\ ("error" \notin DOMAIN result) =>
                    /\ result.valid = TRUE
                    /\ world.tls.kind = "ok"
        ELSE /\ world.get.kind # "ok" => DOMAIN result = {"error"}
             /\ ("error" \in DOMAIN result) <=> (DOMAIN result \cap HdrSuccessFields = {})
             /\ ("error" \notin DOMAIN result) => HdrSuccessFields \subseteq DOMAIN result

\* the TLS probe has run against a host whose name does not resolve
C11_Witness ==
    /\ pc = "done"
    /\ Len(log) > 0
    /\ log[1].method = "CONNECT"
    /\ world.tls.kind = "gaierror"
    /\ result.valid = FALSE
    /\ result.error = "Domain not found"

(***************************************************************************)
(* The Header probe's grade                                                *)
(***************************************************************************)
\* the scores the clamp of the handler lets through, in sevenths
Scores == 0..(10 * Len(security_headers_check))

InitGrade ==
    /\ pc = "idle"
    /\ \/ /\ request = [url |-> <<"a",".","b">>, score |-> 0]
          /\ \E f \in [Catalog -> Sendings] :
                 world = [get |-> Ok(Response(200, SentHeaders(f), T_ok))]
       \/ /\ \E s \in Scores : request = [url |-> <<"a",".","b">>, score |-> s]
          /\ world = [get |-> Ok(Response(200, NoHeaders, T_ok))]
    /\ result = None
    /\ log = <<>>

\* the grading step of the handler on its own, applied to a clamped score
GradeScore ==
    /\ pc = "idle"
    /\ pc' = "done"
    /\ result' = [security_score |-> round1(request.score), grade |-> grade(request.score)]
    /\ UNCHANGED <<request, world, log>>

NextGrade ==
    \/ GradeScore
    \/ AnalyzeSecurityHeaders

SpecGrade == InitGrade /\ [][NextGrade]_vars

\* the grade the cutoffs 9, 7, 5, 3 give the score num/den
CutoffGrade(num, den) ==
    CASE num >= 9 * den -> "A"
      [] num < 9 * den /\ num >= 7 * den -> "B"
      [] num < 7 * den /\ num >= 5 * den -> "C"
      [] num < 5 * den /\ num >= 3 * den -> "D"
      [] num < 3 * den -> "F"

GradeRank == [A |-> 4, B |-> 3, C |-> 2, D |-> 1, F |-> 0]

\* C12: every score in [0, 10] gets the one grade of the cutoffs (>= 9 A,
\* >= 7 B, >= 5 C, >= 3 D, else F, the cutoff scores included), no lower
\* score gets a better grade, and the grade of a result is the grade the
\* cutoffs give the security_score of that same result.
C12_GradeFollowsCutoffs ==
    (pc = "done" /\ "grade" \in DOMAIN result) =>
        /\ result.grade = CutoffGrade(result.security_score, 10)
        /\ log = <<>> =>
              /\ result.grade = CutoffGrade(request.score, 7)
              /\ \A lower \in 0..request.score :
                     GradeRank[grade(lower)] <= GradeRank[result.grade]

\* a score of exactly 9 has been graded A
C12_Witness ==
    /\ pc = "done"
    /\ log = <<>>
    /\ request.score = 9 * 7
    /\ result.security_score = 90
    /\ result.grade = "A"

(***************************************************************************)
(* Specification of the DNS probe                                          *)
(***************************************************************************)
MaxTxt == 2

T_spf      == <<"\"","v","=","s","p","f","1"," ","-","a","l","l","\"">>
T_dmarc    == <<"\"","v","=","D","M","A","R","C","1",";","\"">>
T_verify   == <<"\"","x","=","1","\"">>
T_spf_bare == <<"v","=","s","p","f","1"," ","-","a","l","l">>
T_spf_caps == <<"\"","v","=","S","P","F","1"," ","-","a","l","l","\"">>

TxtValues == {T_spf, T_dmarc, T_verify, T_spf_bare, T_spf_caps}

\* the answers a TXT lookup can bring: up to max records in any order
TxtAnswers(max) == UNION { [1..n -> TxtValues] : n \in 1..max }

Addr == <<"1",".","2">>

\* the outcomes of a lookup of another type: an answer, no answer, or an
\* error of the resolver (NXDOMAIN, timeout, no name server, bad name)
LookupOutcomes == { Ok(<<Addr>>), Fail("NoAnswer"), Fail("NXDOMAIN") }

ManyAddrs == [i \in 1..6 |-> Addr]

DnsDomains == { <<"a",".","b">>, <<"H","T","T","P",":","/","/","A",".","b","/","x">> }

InitDns ==
    /\ pc = "idle"
    /\ request \in { [domain |-> d] : d \in DnsDomains }
    /\ \E a \in LookupOutcomes \cup {Ok(ManyAddrs)},
          o \in [{"AAAA", "MX", "NS", "CNAME"} -> LookupOutcomes],
          t \in { Ok(x) : x \in TxtAnswers(MaxTxt) } \cup { Fail("NoAnswer"), Fail("NXDOMAIN") } :
           world = [dns |-> [rt \in Range(record_types) |->
                               IF rt = "A" THEN a ELSE IF rt = "TXT" THEN t ELSE o[rt]]]
    /\ result = None
    /\ log = <<>>

NextDns == AnalyzeDns

SpecDns == InitDns /\ [][NextDns]_vars

\* the TXT records the lookup answered with
TxtInWorld == IF world.dns["TXT"].kind = "ok" THEN world.dns["TXT"].resp ELSE <<>>

SomeTxtStartsWith(prefix) ==
    \E i \in 1..Len(TxtInWorld) :
        /\ Len(TxtInWorld[i]) >= Len(prefix)
        /\ SubSeq(TxtInWorld[i], 1, Len(prefix)) = prefix

\* C14: for every outcome of the six lookups (answers, no answer or a
\* resolution error, each recorded under its type, none failing the probe),
\* spf_configured is true iff some TXT record starts with "v=spf1 (quote
\* included) and dmarc_configured iff some TXT record starts with "v=DMARC1;
\* the SPF-missing issue is reported iff spf_configured is false and the
\* DMARC-missing issue iff dmarc_configured is false, so an SPF-only TXT set
\* gives spf_configured, not dmarc_configured, and the DMARC-missing issue.
C14_EmailAuthenticationChecks ==
    pc = "done" =>
        LET spf   == SomeTxtStartsWith(<<"\"","v","=","s","p","f","1">>)
            dmarc == SomeTxtStartsWith(<<"\"","v","=","D","M","A","R","C","1">>)
        IN  /\ "error" \notin DOMAIN result
            /\ \A rt \in Range(record_types) :
                  result.dns_records[rt] =
                      CASE world.dns[rt].kind = "ok"       -> world.dns[rt].resp
                        [] world.dns[rt].kind = "NoAnswer" -> <<>>
                        [] OTHER                           -> <<S_error_resolving>>
            /\ result.spf_configured <=> spf
            /\ result.dmarc_configured <=> dmarc
            /\ Has(result.security_issues,
                   "No SPF record found - email spoofing protection missing")
                  <=> ~result.spf_configured
            /\ Has(result.security_issues,
                   "No DMARC record found - email authentication policy missing")
                  <=> ~result.dmarc_configured
            /\ (spf /\ ~dmarc) =>
                  /\ result.spf_configured
                  /\ ~result.dmarc_configured
                  /\ Has(result.security_issues,
                         "No DMARC record found - email authentication policy missing")
                  /\ ~Has(result.security_issues,
                          "No SPF record found - email spoofing protection missing")

\* a domain with an SPF record only, one of whose other lookups failed, has
\* been analyzed
C14_Witness ==
    /\ pc = "done"
    /\ world.dns["TXT"] = Ok(<<T_spf>>)
    /\ world.dns["MX"].kind = "NXDOMAIN"
    /\ result.spf_configured
    /\ ~result.dmarc_configured
    /\ Has(result.security_issues,
           "No DMARC record found - email authentication policy missing")

====
